---- MODULE Spec2Model ----
(***************************************************************************)
(* Model of python/run_validator.py (ngen-datastream): the run-folder      *)
(* validator.  The program is a __main__ block that chooses the run        *)
(* directory, validate_data_dir (directory scan, realization check,        *)
(* partitioning, process-pool fan-out) and the worker validate_forcings.   *)
(***************************************************************************)
EXTENDS Integers, Sequences, FiniteSets, TLC

(* ------------------------------ bounds -------------------------------- *)
\* catchments read from the geopackage in a whole-program run
MaxCatch == 4
\* forcing file names (embedded ids 1..MaxForc) that the forcing directory may hold
MaxForc == 4
\* os.cpu_count() in a whole-program run
MaxProcs == 3
\* entries validate_paths may report
MaxVal == 3
\* files a scanned run directory may hold
MaxDirFiles == 4
\* list lengths and worker counts of the partitioning-only specification
WideCatch == 7
WideProcs == 4
\* length of the file names of the pattern-matching specification
MaxNameLen == 3
\* timestamps (in units of the output interval) and row counts of the
\* time-axis specification
MaxTime == 3
MaxRows == 4

(* ------------------------------ helpers ------------------------------- *)
Min(a, b) == IF a <= b THEN a ELSE b

\* Python's s[i:k] for 0 <= i, 0 <= k: indices are clipped to the length
Slice(s, i, k) == SubSeq(s, i + 1, Min(k, Len(s)))

\* sorted(...) of a set of naturals
RECURSIVE SortedSeq(_)
SortedSeq(S) ==
    IF S = {} THEN <<>>
    ELSE LET m == CHOOSE x \in S : \A y \in S : x <= y
         IN <<m>> \o SortedSeq(S \ {m})

RECURSIVE Flatten(_)
Flatten(ss) == IF ss = <<>> THEN <<>> ELSE Head(ss) \o Flatten(Tail(ss))

(* --------------------- partitioning, lines 121-137 -------------------- *)
\* line 126
Nper(ncatchments, np) == ncatchments \div np
\* line 127
Nleft(ncatchments, np) == ncatchments - (Nper(ncatchments, np) * np)
\* line 132: k = nper + i + nleft
NextK(nper, i, nleft) == nper + i + nleft
\* line 137, with a variant that skips one element at each boundary
NextISkip(k) == k + 1
NextI(k) == k

\* the loop of lines 130-137; st carries i and the two lists of slices
RECURSIVE PartitionLoop(_, _, _, _, _, _)
PartitionLoop(ffiles, clist, nper, nleft, iters, st) ==
    IF iters = 0 THEN st
    ELSE LET k == NextK(nper, st.i, nleft)
         IN PartitionLoop(ffiles, clist, nper, nleft, iters - 1,
                [i  |-> NextI(k),
                 fl |-> Append(st.fl, Slice(ffiles, st.i, k)),
                 cl |-> Append(st.cl, Slice(clist, st.i, k)),
                 st |-> Append(st.st, st.i)])

Partitions(ffiles, clist, np) ==
    PartitionLoop(ffiles, clist, Nper(Len(clist), np), Nleft(Len(clist), np), np,
                  [i |-> 0, fl |-> <<>>, cl |-> <<>>, st |-> <<>>])

(* --------------- names and patterns, lines 45-51 ----------------------- *)
\* A name is a sequence of one-character strings.  A file pattern is a
\* sequence of regular-expression tokens: a character that stands for itself,
\* "." (any character), ".*" (any run of characters), and the placeholder
\* "{{id}}" that line 47 replaces.
DigitChars == <<"0", "1", "2", "3", "4", "5", "6", "7", "8", "9">>
Digits == {DigitChars[i] : i \in 1..10}

\* the names of catchment number i and of its forcing file, for i in 0..9
CatName(i) == <<"c", DigitChars[i + 1]>>
FileName(i) == <<"f", DigitChars[i + 1], ".", "c">>
CatNames(ids) == [i \in 1..Len(ids) |-> CatName(ids[i])]
FileNames(ids) == [i \in 1..Len(ids) |-> FileName(ids[i])]

RECURSIVE TakeDigits(_)
TakeDigits(s) ==
    IF s = <<>> \/ Head(s) \notin Digits THEN <<>>
    ELSE <<Head(s)>> \o TakeDigits(Tail(s))

\* line 45: re.findall(r'\d+', jcatch), of which [0] is taken; <<>> stands
\* for the empty list
RECURSIVE FirstDigitRun(_)
FirstDigitRun(s) ==
    IF s = <<>> THEN <<>>
    ELSE IF Head(s) \in Digits THEN TakeDigits(s)
    ELSE FirstDigitRun(Tail(s))

\* line 47: pattern.replace('{{id}}', jid)
RECURSIVE Substitute(_, _)
Substitute(pattern, jid) ==
    IF pattern = <<>> THEN <<>>
    ELSE (IF Head(pattern) = "{{id}}" THEN jid ELSE <<Head(pattern)>>)
             \o Substitute(Tail(pattern), jid)

\* Matching of a compiled pattern at the start of s; anchored at the end of
\* s as well when full is TRUE (re.fullmatch), not when it is FALSE (re.match)
RECURSIVE MatchAt(_, _, _)
MatchAt(re, s, full) ==
    IF re = <<>> THEN (~full \/ s = <<>>)
    ELSE IF Head(re) = ".*"
         THEN \E k \in 0..Len(s) : MatchAt(Tail(re), SubSeq(s, k + 1, Len(s)), full)
         ELSE /\ s # <<>>
              /\ Head(re) = "." \/ Head(re) = Head(s)
              /\ MatchAt(Tail(re), Tail(s), full)

\* line 51: compiled.match(jfile)
ReMatch(re, s) == MatchAt(re, s, FALSE)

(* ------------------- the time axis, lines 54-64 ------------------------ *)
\* Times are whole numbers of seconds.  A time column is given by its number
\* of rows and its first and last timestamp.
TimeColumns(maxt, maxrows) ==
    {c \in [rows : 0..maxrows, first : 0..maxt, last : 0..maxt] :
        /\ c.rows = 0 => c.first = 0 /\ c.last = 0
        /\ c.rows = 1 => c.first = c.last}

\* line 64: dt_s == dt_forcings_s with dt_forcings_s the quotient of line 61,
\* for rows > 1
IntervalAgrees(dt, c) == dt * (c.rows - 1) = c.last - c.first

\* lines 58-64: the exception the time-axis check raises, or "none"
AxisCheck(cfg, c) ==
    IF c.rows = 0 THEN "index_error_time"
    ELSE IF c.rows = 1 THEN "zero_division"
    ELSE IF cfg.start_time # c.first THEN "start_mismatch"
    ELSE IF cfg.end_time # c.last THEN "end_mismatch"
    ELSE IF ~IntervalAgrees(cfg.output_interval, c) THEN "interval_mismatch"
    ELSE "none"

\* the realization before line 114 has run
Unresolved == [resolved |-> FALSE, file_pattern |-> <<>>,
               start_time |-> 0, end_time |-> 0, output_interval |-> 0]
\* the realization of whole-program runs: pattern f{{id}}.c, two intervals
RunRealization == [resolved |-> TRUE, file_pattern |-> <<"f", "{{id}}", ".", "c">>,
                   start_time |-> 0, end_time |-> 2, output_interval |-> 1]
\* the reference forcing files of whole-program runs: agreeing, one row
\* short, a single row
RunColumns == {[rows |-> 3, first |-> 0, last |-> 2],
               [rows |-> 2, first |-> 0, last |-> 2],
               [rows |-> 1, first |-> 0, last |-> 0]}

(* ------------------------------ state --------------------------------- *)
VARIABLES
    pc,                  \* position of the main process
    args,                \* parsed command line: which options were supplied
    data_dir,            \* line 168/171: "unset", "user" or "tmp"
    ii_delete_folder,    \* line 169/176: "unset", TRUE or FALSE
    tmp_dir,             \* /tmp/ngen_data_dir: "absent", "stale" or "extracted"
    user_dir,            \* the --data_dir path: "none", "absent" or "exists"
    err,                 \* the uncaught exception that ended the run, or "none"
    err_arg,             \* the path an error message names (0: none)
    unwalked,            \* files os.walk has still to yield
    walked,              \* files os.walk has yielded
    found,               \* catchment_file, nexus_file, realization_file, geopackage_file
    forcing_files,       \* lines 68/98 and, reassigned, line 119
    val,                 \* line 22: what validate_paths reported
    serialized_realization, \* module global, line 113
    forcing_dir,         \* module global, line 117
    catchment_list,      \* line 111
    nprocs,              \* line 121
    forcing_files_list,  \* line 122
    catchment_list_list, \* line 123
    slice_start,         \* value of i at the start of each loop iteration
    fut,                 \* state of each future of pool.map
    wj,                  \* each worker's loop index j
    werr,                \* the exception each worker raised, or "none"
    axis_reads,          \* time-axis checks performed: worker and global file index
    collected,           \* results the for loop of line 140 has consumed
    printed              \* line 146 has printed 'NGen run folder is valid'

vars == <<pc, args, data_dir, ii_delete_folder, tmp_dir, user_dir, err, err_arg,
          unwalked, walked, found, forcing_files, val, serialized_realization,
          forcing_dir, catchment_list, nprocs, forcing_files_list,
          catchment_list_list, slice_start, fut, wj, werr, axis_reads,
          collected, printed>>

mainVars == <<args, data_dir, ii_delete_folder, tmp_dir, user_dir>>
scanVars == <<unwalked, walked, found>>
realVars == <<val, serialized_realization, forcing_dir>>
partVars == <<nprocs, forcing_files_list, catchment_list_list, slice_start>>
poolVars == <<fut, wj, werr, axis_reads, collected>>

None == 0

(* -------------------- the run directory's files ----------------------- *)
\* A path is described by the search strings of lines 76-97 that occur in
\* it, so that jfile_path.find(s) >= 0 is s \in FileMarks[f].
FileMarks == <<
    {"config", "catchments"},                     \* 1 config/catchments.geojson
    {"config", "catchments"},                     \* 2 config/catchments_v2.geojson
    {"config", "nexus"},                          \* 3 config/nexus.geojson
    {"config", "nexus"},                          \* 4 config/nexus_v2.geojson
    {"config", "realization"},                    \* 5 config/realization.json
    {"config", "realization"},                    \* 6 config/realization_v2.json
    {"config", ".gpkg"},                          \* 7 config/hydrofabric.gpkg
    {"config", ".gpkg"},                          \* 8 config/hydrofabric_v2.gpkg
    {"config", "catchments", "nexus"},            \* 9 config/catchments_nexus.geojson
    {"forcing"},                                  \* 10 forcings/cat-1.csv
    {"catchments", "forcing", "forcing_metadata"} \* 11 forcing_metadata/catchments.txt
>>
Files == 1..Len(FileMarks)

\* directories of the scan-only specification
Dirs == {d \in SUBSET Files : Cardinality(d) <= MaxDirFiles}
\* directories of whole-program runs: well formed (with and without a forcing
\* file), catchment/nexus style, ambiguous, no realization, duplicate
RunDirs == {{5, 7}, {5, 7, 10}, {1, 3, 5}, {1, 5, 7}, {7}, {5, 6, 7}}

\* lines 77, 82, 87, 92, in the order the code tests them
Cats == <<"catchment_file", "nexus_file", "realization_file", "geopackage_file">>
Needle == <<"catchments", "nexus", "realization", ".gpkg">>
DupErr == <<"dup_catchment", "dup_nexus", "dup_realization", "dup_geopackage">>

NoneFound == [catchment_file |-> None, nexus_file |-> None,
              realization_file |-> None, geopackage_file |-> None]

\* lines 78-81 (and 83-86, 88-91, 93-96): the slot is free
SlotFreeAlways(fnd, ci) == TRUE
SlotFree(fnd, ci) == fnd[Cats[ci]] = None

\* lines 77-96 for one file: the four tests in turn, stopping at a raise
RECURSIVE Classify(_, _, _)
Classify(f, fnd, ci) ==
    IF ci > Len(Cats) THEN [found |-> fnd, err |-> "none"]
    ELSE IF Needle[ci] \in FileMarks[f]
         THEN IF SlotFree(fnd, ci)
              THEN Classify(f, [fnd EXCEPT ![Cats[ci]] = f], ci + 1)
              ELSE [found |-> fnd, err |-> DupErr[ci]]
         ELSE Classify(f, fnd, ci + 1)

\* line 76
InConfig(f) == "config" \in FileMarks[f]
\* line 97
IsForcing(f) == "forcing" \in FileMarks[f] /\ "forcing_metadata" \notin FileMarks[f]

\* line 104, with a variant that forgets the nexus file
BothStylesCatchmentOnly(fnd) == fnd.catchment_file # None
BothStyles(fnd) == fnd.catchment_file # None \/ fnd.nexus_file # None

\* lines 100-106
ScanVerdict(fnd) ==
    IF fnd.geopackage_file = None
    THEN IF None \in {fnd.catchment_file, fnd.nexus_file, fnd.realization_file}
         THEN "missing" ELSE "none"
    ELSE IF BothStyles(fnd) THEN "ambiguous"
         ELSE IF None \in {fnd.geopackage_file, fnd.realization_file}
              THEN "missing" ELSE "none"

(* ------------------------ __main__, lines 165-182 --------------------- *)
\* lines 167-180: the branch the if/elif chain takes
Branch(a) ==
    IF a.data_dir THEN "data_dir"
    ELSE IF a.tarball THEN "tarball"
    ELSE IF a.data_dir /\ a.tarball THEN "both"
    ELSE "neither"

Args == [data_dir : BOOLEAN, tarball : BOOLEAN]

\* everything validate_data_dir has not yet assigned
Blank ==
    /\ err = "none" /\ err_arg = 0
    /\ walked = {} /\ found = NoneFound /\ forcing_files = <<>>
    /\ val = <<>> /\ serialized_realization = Unresolved /\ forcing_dir = "unset"
    /\ catchment_list = <<>> /\ nprocs = 0
    /\ forcing_files_list = <<>> /\ catchment_list_list = <<>> /\ slice_start = <<>>
    /\ fut = <<>> /\ wj = <<>> /\ werr = <<>> /\ axis_reads = {} /\ collected = 0
    /\ printed = FALSE

Init ==
    /\ pc = "start"
    /\ args \in Args
    /\ data_dir = "unset" /\ ii_delete_folder = "unset"
    /\ tmp_dir \in {"absent", "stale"}
    /\ user_dir \in (IF args.data_dir THEN {"absent", "exists"} ELSE {"none"})
    /\ unwalked = {}
    /\ Blank

\* an uncaught exception ends the process
Raise(e, a) == pc' = "exit1" /\ err' = e /\ err_arg' = a

\* lines 165-182: choose the run directory, extract the tarball, test the path;
\* dir is what os.walk will find below data_dir
MainArgsOn(dirs) ==
    /\ pc = "start"
    /\ UNCHANGED <<args, user_dir, walked, found, forcing_files, realVars,
                   catchment_list, partVars, poolVars, printed>>
    /\ CASE Branch(args) = "data_dir" ->
              /\ data_dir' = "user" /\ ii_delete_folder' = FALSE
              /\ tmp_dir' = tmp_dir
              /\ IF user_dir = "exists"
                 THEN /\ pc' = "walk" /\ unwalked' \in dirs
                      /\ UNCHANGED <<err, err_arg>>
                 ELSE Raise("invalid_directory", 0) /\ unwalked' = unwalked
         [] Branch(args) = "tarball" ->
              /\ data_dir' = "tmp" /\ ii_delete_folder' = TRUE
              /\ tmp_dir' = "extracted"
              /\ pc' = "walk" /\ unwalked' \in dirs
              /\ UNCHANGED <<err, err_arg>>
         [] Branch(args) = "both" ->
              /\ Raise("both_options", 0)
              /\ UNCHANGED <<data_dir, ii_delete_folder, tmp_dir, unwalked>>
         [] Branch(args) = "neither" ->
              /\ Raise("no_options", 0)
              /\ UNCHANGED <<data_dir, ii_delete_folder, tmp_dir, unwalked>>

MainArgs == MainArgsOn(RunDirs)

(* ------------------- validate_data_dir, lines 66-108 ------------------ *)
\* one iteration of the loops of lines 73-98, on whichever file os.walk yields
WalkFile ==
    /\ pc = "walk"
    /\ \E f \in unwalked :
         LET c == IF InConfig(f) THEN Classify(f, found, 1)
                  ELSE [found |-> found, err |-> "none"]
         IN /\ unwalked' = unwalked \ {f}
            /\ walked' = walked \cup {f}
            /\ found' = c.found
            /\ IF c.err # "none"
               THEN Raise(c.err, 0) /\ forcing_files' = forcing_files
               ELSE /\ forcing_files' = IF IsForcing(f) THEN Append(forcing_files, f)
                                        ELSE forcing_files
                    /\ UNCHANGED <<pc, err, err_arg>>
    /\ UNCHANGED <<mainVars, realVars, catchment_list, partVars, poolVars, printed>>

\* lines 100-108, once the walk is exhausted
ScanFinish ==
    /\ pc = "walk" /\ unwalked = {}
    /\ IF ScanVerdict(found) = "none"
       THEN pc' = "read_catchments" /\ UNCHANGED <<err, err_arg>>
       ELSE Raise(ScanVerdict(found), 0)
    /\ UNCHANGED <<mainVars, scanVars, forcing_files, realVars, catchment_list,
                   partVars, poolVars, printed>>

\* lines 110-111: geopandas.read_file(geopackage_file, layer='divides') and the
\* sort; the catchments are identified by the number in their divide_id
ReadCatchments ==
    /\ pc = "read_catchments"
    /\ IF found.geopackage_file = None
       THEN Raise("read_catchments", 0) /\ catchment_list' = catchment_list
       ELSE /\ \E n \in 0..MaxCatch : catchment_list' = CatNames(SortedSeq(1..n))
            /\ pc' = "validate_realization" /\ UNCHANGED <<err, err_arg>>
    /\ UNCHANGED <<mainVars, scanVars, forcing_files, realVars, partVars, poolVars,
                   printed>>

(* ------------------- validate_realization, lines 11-30 ---------------- *)
\* the configuration sections validate_paths can name
Models == {"Routing", "Forcing", "Formulation"}

\* what validate_paths can report: one entry per missing path, each with the
\* section it came from; the entries' paths are distinct
ValLists ==
    UNION {{[i \in 1..n |-> [model |-> m[i], value |-> i]] : m \in [1..n -> Models]}
           : n \in 0..MaxVal}

\* line 25: isinstance(model, Routing), with a variant that exempts nothing
IsRoutingNever(model) == FALSE
IsRouting(model) == model = "Routing"

\* lines 23-28: the loop over val; the message of line 28 names val[0].value
RECURSIVE ValLoop(_, _)
ValLoop(v, j) ==
    IF j > Len(v) THEN [raised |-> FALSE, named |-> 0]
    ELSE IF IsRouting(v[j].model) THEN ValLoop(v, j + 1)
         ELSE [raised |-> TRUE, named |-> v[1].value]

\* line 114: the call of validate_realization and the assignment of the global
ValidateRealization ==
    /\ pc = "validate_realization"
    /\ \E parsed \in BOOLEAN :
         IF ~parsed
         THEN /\ Raise("parse_error", 0)
              /\ UNCHANGED <<val, serialized_realization>>
         ELSE \E v \in ValLists :
                /\ val' = v
                /\ IF ValLoop(v, 1).raised
                   THEN /\ Raise("path_missing", ValLoop(v, 1).named)
                        /\ UNCHANGED serialized_realization
                   ELSE /\ serialized_realization' = RunRealization
                        /\ pc' = "list_forcings"
                        /\ UNCHANGED <<err, err_arg>>
    /\ UNCHANGED <<mainVars, scanVars, forcing_files, forcing_dir, catchment_list,
                   partVars, poolVars, printed>>

\* lines 116-119: the forcing directory's listing, sorted; a forcing file is
\* identified by the catchment number its name carries.  val, local to
\* validate_realization, is gone by now.
ListForcings ==
    /\ pc = "list_forcings"
    /\ forcing_dir' = "set"
    /\ val' = <<>>
    /\ \E exists \in BOOLEAN :
         IF exists
         THEN /\ \E S \in SUBSET (1..MaxForc) : forcing_files' = FileNames(SortedSeq(S))
              /\ pc' = "partition" /\ UNCHANGED <<err, err_arg>>
         ELSE Raise("no_forcing_dir", 0) /\ forcing_files' = forcing_files
    /\ UNCHANGED <<mainVars, scanVars, serialized_realization, catchment_list,
                   partVars, poolVars, printed>>

\* lines 121-137
PartitionOn(maxprocs) ==
    /\ pc = "partition"
    /\ \E np \in 1..maxprocs :
         LET r == Partitions(forcing_files, catchment_list, np)
         IN /\ nprocs' = np
            /\ forcing_files_list' = r.fl
            /\ catchment_list_list' = r.cl
            /\ slice_start' = r.st
    /\ pc' = "dispatch"
    /\ UNCHANGED <<mainVars, scanVars, forcing_files, realVars, catchment_list,
                   poolVars, printed, err, err_arg>>

Partition == PartitionOn(MaxProcs)

(* ------------- the process pool, lines 139-144, and workers ----------- *)
\* lines 139-143: pool.map submits one call of validate_forcings per partition
Dispatch ==
    /\ pc = "dispatch"
    /\ fut' = [p \in 1..nprocs |-> "pending"]
    /\ wj' = [p \in 1..nprocs |-> 0]
    /\ werr' = [p \in 1..nprocs |-> "none"]
    /\ pc' = "collect"
    /\ UNCHANGED <<mainVars, scanVars, forcing_files, realVars, catchment_list,
                   partVars, axis_reads, collected, printed, err, err_arg>>

\* the pool hands a submitted call to a worker process
WorkerStart(p) ==
    /\ pc = "collect"
    /\ p \in DOMAIN fut /\ fut[p] = "pending"
    /\ fut' = [fut EXCEPT ![p] = "running"]
    /\ UNCHANGED <<pc, mainVars, scanVars, forcing_files, realVars, catchment_list,
                   partVars, wj, werr, axis_reads, collected, printed, err, err_arg>>

\* lines 46-51: the file name matches the realization's pattern with the
\* catchment's number in it
Matches(jcatch, jfile) ==
    ReMatch(Substitute(serialized_realization.file_pattern, FirstDigitRun(jcatch)),
            jfile)

\* line 53, with a variant that never takes the branch
DoesAxisCheckNever(j) == FALSE
DoesAxisCheck(j) == j = 0

\* lines 46 and 54-57 read the module globals and assign neither; a variant
\* in which the worker rebinds the realization
WorkerRebindsGlobal(g) == Unresolved
WorkerLeavesGlobal(g) == g

\* validate_forcings, lines 40-64: one iteration of the loop of line 42 (j is
\* 0-based as in the code), or the return when there is nothing left to do;
\* columns are the time columns the reference forcing file may hold
WorkerStepOn(p, columns) ==
    /\ p \in DOMAIN fut /\ fut[p] = "running"
    /\ LET cs == catchment_list_list[p]
           fs == forcing_files_list[p]
           j  == wj[p]
           fail(e) == /\ fut' = [fut EXCEPT ![p] = "failed"]
                      /\ werr' = [werr EXCEPT ![p] = e]
                      /\ wj' = wj
           pass == /\ wj' = [wj EXCEPT ![p] = j + 1]
                   /\ fut' = [fut EXCEPT ![p] = IF j + 1 = Len(cs) THEN "done"
                                                 ELSE "running"]
                   /\ werr' = werr
       IN IF j >= Len(cs)
          THEN /\ fut' = [fut EXCEPT ![p] = "done"]
               /\ UNCHANGED <<wj, werr, axis_reads>>
          ELSE IF FirstDigitRun(cs[j + 1]) = <<>>
          THEN fail("index_error_jid") /\ axis_reads' = axis_reads
          ELSE IF j + 1 > Len(fs)
          THEN fail("index_error") /\ axis_reads' = axis_reads
          ELSE IF ~Matches(cs[j + 1], fs[j + 1])
          THEN fail("pattern_mismatch") /\ axis_reads' = axis_reads
          ELSE IF DoesAxisCheck(j)
          THEN \E c \in columns :
                 /\ axis_reads' = axis_reads \cup
                       {[worker |-> p, index |-> slice_start[p], file |-> fs[1],
                         column |-> c]}
                 /\ IF AxisCheck(serialized_realization, c) = "none" THEN pass
                    ELSE fail(AxisCheck(serialized_realization, c))
          ELSE pass /\ axis_reads' = axis_reads
    /\ serialized_realization' = WorkerLeavesGlobal(serialized_realization)
    /\ UNCHANGED <<pc, mainVars, scanVars, forcing_files, val, forcing_dir,
                   catchment_list, partVars, collected, printed, err, err_arg>>

WorkerStep(p) == WorkerStepOn(p, RunColumns)

\* iterating pool.map's results re-raises a worker's exception; a variant
\* that drops it
ReraisesNever(status) == FALSE
Reraises(status) == status = "failed"

\* lines 140-144: the for loop takes the next result, in submission order; an
\* exception leaves the loop, and the result iterator cancels the calls that
\* no worker has started
Collect ==
    /\ pc = "collect" /\ collected < nprocs
    /\ LET p == collected + 1
       IN /\ fut[p] \in {"done", "failed"}
          /\ IF Reraises(fut[p])
             THEN /\ err' = werr[p] /\ err_arg' = 0
                  /\ pc' = "shutdown"
                  /\ fut' = [q \in 1..nprocs |->
                               IF q > p /\ fut[q] = "pending" THEN "cancelled"
                               ELSE fut[q]]
                  /\ collected' = collected
             ELSE /\ collected' = p
                  /\ UNCHANGED <<pc, fut, err, err_arg>>
    /\ UNCHANGED <<mainVars, scanVars, forcing_files, realVars, catchment_list,
                   partVars, wj, werr, axis_reads, printed>>

\* the pool's shutdown(wait=True) has nothing left to wait for on a call in
\* this state; a variant that does not wait
SettledAlways(status) == TRUE
Settled(status) == status \in {"done", "failed", "cancelled"}

\* line 139: leaving the with block waits for the workers; then either the
\* loop is over or the exception leaves validate_data_dir and the program
PoolJoin ==
    /\ \/ pc = "collect" /\ collected = nprocs /\ pc' = "report"
       \/ pc = "shutdown" /\ pc' = "exit1"
    /\ \A q \in 1..nprocs : Settled(fut[q])
    /\ UNCHANGED <<mainVars, scanVars, forcing_files, realVars, catchment_list,
                   partVars, poolVars, printed, err, err_arg>>

\* line 146
Report ==
    /\ pc = "report"
    /\ printed' = TRUE
    /\ pc' = "cleanup"
    /\ UNCHANGED <<mainVars, scanVars, forcing_files, realVars, catchment_list,
                   partVars, poolVars, err, err_arg>>

\* line 186: the guard of the rm -rf; a variant without the guard
DeletesTmpAlways(flag) == TRUE
DeletesTmp(flag) == flag = TRUE

\* line 186
Cleanup ==
    /\ pc = "cleanup"
    /\ tmp_dir' = IF DeletesTmp(ii_delete_folder) THEN "absent" ELSE tmp_dir
    /\ pc' = "exit0"
    /\ UNCHANGED <<args, data_dir, ii_delete_folder, user_dir, scanVars,
                   forcing_files, realVars, catchment_list, partVars, poolVars,
                   printed, err, err_arg>>

Next ==
    \/ MainArgs
    \/ WalkFile
    \/ ScanFinish
    \/ ReadCatchments
    \/ ValidateRealization
    \/ ListForcings
    \/ Partition
    \/ Dispatch
    \/ \E p \in 1..MaxProcs : WorkerStart(p)
    \/ \E p \in 1..MaxProcs : WorkerStep(p)
    \/ Collect
    \/ PoolJoin
    \/ Report
    \/ Cleanup

Spec == Init /\ [][Next]_vars

(* ------------- specifications of single stages of the run ------------- *)
\* validate_data_dir's scan on every small directory
InitScan ==
    /\ pc = "walk"
    /\ args = [data_dir |-> TRUE, tarball |-> FALSE]
    /\ data_dir = "user" /\ ii_delete_folder = FALSE
    /\ tmp_dir = "absent" /\ user_dir = "exists"
    /\ unwalked \in Dirs
    /\ Blank

NextScan == WalkFile \/ ScanFinish

SpecScan == InitScan /\ [][NextScan]_vars

\* the partitioning loop on longer lists and more workers
PartitionWide == PartitionOn(WideProcs)

InitPart ==
    /\ pc = "partition"
    /\ args = [data_dir |-> TRUE, tarball |-> FALSE]
    /\ data_dir = "user" /\ ii_delete_folder = FALSE
    /\ tmp_dir = "absent" /\ user_dir = "exists"
    /\ unwalked = {} /\ walked = {5, 7}
    /\ found = [NoneFound EXCEPT !.realization_file = 5, !.geopackage_file = 7]
    /\ err = "none" /\ err_arg = 0
    /\ val = <<>> /\ serialized_realization = RunRealization /\ forcing_dir = "set"
    /\ \E n \in 0..WideCatch : catchment_list = CatNames(SortedSeq(1..n))
    /\ \E S \in SUBSET (1..WideCatch) : forcing_files = FileNames(SortedSeq(S))
    /\ nprocs = 0
    /\ forcing_files_list = <<>> /\ catchment_list_list = <<>> /\ slice_start = <<>>
    /\ fut = <<>> /\ wj = <<>> /\ werr = <<>> /\ axis_reads = {} /\ collected = 0
    /\ printed = FALSE

NextPart == PartitionWide

SpecPart == InitPart /\ [][NextPart]_vars

\* validate_forcings called in a worker with one pair, under a realization
OnePairRunning(jcatch, jfile, cfg) ==
    /\ pc = "collect"
    /\ args = [data_dir |-> TRUE, tarball |-> FALSE]
    /\ data_dir = "user" /\ ii_delete_folder = FALSE
    /\ tmp_dir = "absent" /\ user_dir = "exists"
    /\ unwalked = {} /\ walked = {5, 7}
    /\ found = [NoneFound EXCEPT !.realization_file = 5, !.geopackage_file = 7]
    /\ err = "none" /\ err_arg = 0
    /\ val = <<>> /\ serialized_realization = cfg /\ forcing_dir = "set"
    /\ catchment_list = <<jcatch>> /\ forcing_files = <<jfile>>
    /\ nprocs = 1
    /\ forcing_files_list = <<<<jfile>>>> /\ catchment_list_list = <<<<jcatch>>>>
    /\ slice_start = <<0>>
    /\ fut = <<"running">> /\ wj = <<0>> /\ werr = <<"none">>
    /\ axis_reads = {} /\ collected = 0
    /\ printed = FALSE

\* the per-pair check on every short file name
NameChars == {"f", "1", "7", "."}
MatchNames == UNION {[1..n -> NameChars] : n \in 0..MaxNameLen}
MatchCatchments == {<<"c", "1">>, <<"c", "1", "7">>, <<"7", "c", "1">>, <<"c">>}
MatchPatterns == {<<"f", "{{id}}">>, <<"f", "{{id}}", ".">>, <<".*", "{{id}}">>,
                  <<"{{id}}", ".*", "f">>, <<"f", "{", "i", "d", "}">>}

InitMatch ==
    \E jcatch \in MatchCatchments, jfile \in MatchNames, pat \in MatchPatterns :
        OnePairRunning(jcatch, jfile, [RunRealization EXCEPT !.file_pattern = pat])

NextMatch == WorkerStep(1)

SpecMatch == InitMatch /\ [][NextMatch]_vars

\* the time-axis check on every small time column and declared time range
AxisRealizations ==
    {[RunRealization EXCEPT !.start_time = s, !.end_time = e, !.output_interval = d]
        : s \in 0..MaxTime, e \in 0..MaxTime, d \in 0..MaxTime}

InitAxis ==
    \E cfg \in AxisRealizations : OnePairRunning(CatName(1), FileName(1), cfg)

NextAxis == WorkerStepOn(1, TimeColumns(MaxTime, MaxRows))

SpecAxis == InitAxis /\ [][NextAxis]_vars

(* ------------------------------ properties ---------------------------- *)
Partitioned == pc = "dispatch"

\* global index of the element before partition p's first one
RECURSIVE Offset(_, _)
Offset(ll, p) == IF p <= 1 THEN 0 ELSE Offset(ll, p - 1) + Len(ll[p - 1])

\* C1: the partitioning loop cuts n elements for w workers into w partitions,
\* the first w-1 of floor(n/w) elements and the last of floor(n/w) + (n mod w).
C1_RemainderOnLast ==
    Partitioned =>
        LET n == Len(catchment_list)
        IN /\ Len(catchment_list_list) = nprocs
           /\ \A p \in 1..(nprocs - 1) : Len(catchment_list_list[p]) = n \div nprocs
           /\ Len(catchment_list_list[nprocs]) = (n \div nprocs) + (n % nprocs)

\* C2: the catchment partitions, concatenated in dispatch order, are the sorted
\* catchment list; when the forcing-file list has the same length its
\* partitions concatenate to it as well, each partition has as many files as
\* catchments, and local index j of partition p is one global index in both.
C2_PartitionsReconstruct ==
    Partitioned =>
        /\ Len(catchment_list_list) = nprocs /\ Len(forcing_files_list) = nprocs
        /\ Flatten(catchment_list_list) = catchment_list
        /\ \A p \in 1..nprocs : \A j \in 1..Len(catchment_list_list[p]) :
             catchment_list_list[p][j]
                 = catchment_list[Offset(catchment_list_list, p) + j]
        /\ Len(forcing_files) = Len(catchment_list) =>
             /\ Flatten(forcing_files_list) = forcing_files
             /\ \A p \in 1..nprocs :
                  /\ Len(forcing_files_list[p]) = Len(catchment_list_list[p])
                  /\ \A j \in 1..Len(forcing_files_list[p]) :
                       forcing_files_list[p][j]
                           = forcing_files[Offset(catchment_list_list, p) + j]

\* seven pairs cut for four workers: a remainder, a clipped and an empty slice
C2_Witness ==
    /\ Partitioned
    /\ Len(catchment_list) = 7 /\ Len(forcing_files) = 7 /\ nprocs = 4
    /\ Len(catchment_list_list[2]) = 3 /\ catchment_list_list[4] = <<>>

\* C3: the time-axis check is performed only by the worker whose partition
\* holds global index 0, and so at most once per run.
C3_AxisCheckOnlyFirst ==
    /\ \A r \in axis_reads : r.index = 0
    /\ Cardinality(axis_reads) <= 1

Ended == pc \in {"exit0", "exit1"}
WorkerErrors == {"index_error_jid", "index_error", "pattern_mismatch",
                 "index_error_time", "zero_division",
                 "start_mismatch", "end_mismatch", "interval_mismatch"}

\* C4: the success message is printed only if every dispatched partition's
\* validate_forcings finished without raising; once a partition has raised
\* the message is never printed and the run ends with that kind of error.
C4_FailureFailsRun ==
    /\ printed => /\ Len(fut) = nprocs
                  /\ \A p \in 1..nprocs : fut[p] = "done"
    /\ (\E p \in DOMAIN fut : fut[p] = "failed") =>
          /\ ~printed
          /\ pc # "exit0"
          /\ Ended => pc = "exit1" /\ err \in WorkerErrors

\* a later partition raised while the first one returned normally
C4_Witness ==
    /\ pc = "exit1" /\ nprocs >= 2
    /\ fut[1] = "done"
    /\ \E p \in 2..nprocs : fut[p] = "failed" /\ err = werr[p]

\* C5: started with --tarball, the program has deleted /tmp/ngen_data_dir
\* when it ends, whether validation succeeded or failed.
C5_TmpDirDeleted ==
    (Ended /\ args.tarball /\ data_dir = "tmp") => tmp_dir = "absent"

\* C6: with both options or neither the program stops with a usage error
\* before anything is extracted or validated.
C6_ExactlyOneOption ==
    (args.data_dir = args.tarball) =>
        /\ pc \in {"start", "exit1"}
        /\ pc = "exit1" => err \in {"both_options", "no_options"}
        /\ data_dir = "unset" /\ tmp_dir # "extracted" /\ walked = {}

\* C7: validate_realization raises exactly when validate_paths reported an
\* entry of a section other than Routing; otherwise it returns the resolved
\* configuration.
C7_RaisesIffNonRouting ==
    [][(pc = "validate_realization" /\ err' # "parse_error") =>
          LET offending == \E i \in 1..Len(val') : val'[i].model # "Routing"
          IN /\ (pc' = "exit1" /\ err' = "path_missing") <=> offending
             /\ ~offending => /\ pc' = "list_forcings"
                              /\ serialized_realization'.resolved]_vars

\* only Routing paths are missing, and validation goes on
C7_Witness ==
    /\ pc = "list_forcings" /\ serialized_realization.resolved
    /\ Len(val) >= 2
    /\ \A i \in 1..Len(val) : val[i].model = "Routing"

\* C8: the error raised for a missing path names a missing path of a section
\* other than Routing.
C8_ErrorNamesOffender ==
    (pc = "exit1" /\ err = "path_missing") =>
        \E i \in 1..Len(val) : val[i].value = err_arg /\ val[i].model # "Routing"

\* the scan of validate_data_dir is over: it raised or reached line 108
ScanOver == pc \in {"exit1", "read_catchments"}
ScannedDir == walked \cup unwalked
\* the files of a directory that lines 76-96 classify into category ci
InCategory(d, ci) == {f \in d : InConfig(f) /\ Needle[ci] \in FileMarks[f]}
Duplicated(d, ci) == Cardinality(InCategory(d, ci)) > 1

\* C9 as stated: for every category with more than one file the scan fails
\* with the duplicate-file error of that category, whatever the walk order.
C9_DuplicateErrorEachCategory ==
    ScanOver => \A ci \in 1..Len(Cats) :
                    Duplicated(ScannedDir, ci) => err = DupErr[ci]

\* C9 amended: if some category has more than one file the scan fails with
\* the duplicate-file error of a category that has more than one file (that
\* category itself when it is the only such one), whatever the walk order.
C9_DuplicateErrorSomeCategory ==
    ScanOver =>
        ((\E ci \in 1..Len(Cats) : Duplicated(ScannedDir, ci)) =>
            /\ pc = "exit1"
            /\ \E ci \in 1..Len(Cats) :
                  err = DupErr[ci] /\ Duplicated(ScannedDir, ci))

\* two nexus files met before the second of two catchment files
C9_Witness ==
    /\ pc = "exit1" /\ err = "dup_nexus"
    /\ Duplicated(ScannedDir, 1) /\ Duplicated(ScannedDir, 2)
    /\ found.catchment_file # None

HasGeopackage(d) == InCategory(d, 4) # {}
HasCatchmentOrNexus(d) == InCategory(d, 1) # {} \/ InCategory(d, 2) # {}

\* C10 as stated: a directory with a geopackage file and a catchment or nexus
\* file fails the scan with the ambiguous-domain error.
C10_AmbiguousAlways ==
    (ScanOver /\ HasGeopackage(ScannedDir) /\ HasCatchmentOrNexus(ScannedDir))
        => (pc = "exit1" /\ err = "ambiguous")

\* C10 amended: such a directory, when no category has more than one file,
\* fails the scan with the ambiguous-domain error, also without a
\* realization file.
C10_AmbiguousUnlessDuplicate ==
    (/\ ScanOver
     /\ HasGeopackage(ScannedDir) /\ HasCatchmentOrNexus(ScannedDir)
     /\ \A ci \in 1..Len(Cats) : ~Duplicated(ScannedDir, ci))
        => (pc = "exit1" /\ err = "ambiguous")

\* geopackage and nexus file, no catchment file, no realization file
C10_Witness ==
    /\ pc = "exit1" /\ err = "ambiguous"
    /\ found.geopackage_file # None /\ found.nexus_file # None
    /\ found.catchment_file = None /\ found.realization_file = None

\* C11: when the scan completes without raising, a realization file was
\* found and exactly one domain style holds: a geopackage file and neither a
\* catchment nor a nexus file, or no geopackage file and both of the others.
C11_ScanResultWellFormed ==
    pc = "read_catchments" =>
        LET has(ci) == InCategory(ScannedDir, ci) # {}
        IN /\ unwalked = {}
           /\ \A ci \in 1..Len(Cats) : has(ci) <=> found[Cats[ci]] # None
           /\ has(3)
           /\ \/ has(4) /\ ~has(1) /\ ~has(2)
              \/ ~has(4) /\ has(1) /\ has(2)

\* a directory in the catchment/nexus style passed the scan
C11_Witness ==
    /\ pc = "read_catchments"
    /\ found.geopackage_file = None
    /\ found.catchment_file # None /\ found.nexus_file # None
    /\ found.catchment_file # found.nexus_file

\* the worker's step on its first pair is over and the per-pair check of
\* lines 45-51 raised nothing
PairStepped == fut # <<>> /\ fut[1] # "running" /\ (wj[1] > 0 \/ fut[1] = "failed")
PairPassed == werr[1] \notin {"index_error_jid", "index_error", "pattern_mismatch"}

\* C12: the per-pair check passes exactly when the whole file name, from its
\* first to its last character, matches the pattern with the placeholder
\* replaced by the first run of digits of the catchment id.
C12_PassIffFullMatch ==
    (/\ PairStepped /\ Len(catchment_list) = 1 /\ Len(forcing_files) = 1
     /\ FirstDigitRun(catchment_list[1]) # <<>>)
        => (PairPassed <=>
               MatchAt(Substitute(serialized_realization.file_pattern,
                                  FirstDigitRun(catchment_list[1])),
                       forcing_files[1], TRUE))

\* line 119 has listed the forcing directory
Listed == forcing_dir = "set" /\ err # "no_forcing_dir"
FewerFiles == Listed /\ Len(forcing_files) < Len(catchment_list)

\* C13 as stated: with fewer forcing files than catchments the run fails
\* before any worker partition is dispatched and never reports success.
C13_FailsBeforeDispatch ==
    FewerFiles => (fut = <<>> /\ ~printed)

\* C13 amended: with fewer forcing files than catchments the run never
\* reports success; it ends with an exception raised inside a worker.
C13_FailsInWorker ==
    FewerFiles =>
        /\ ~printed /\ pc \notin {"report", "cleanup", "exit0"}
        /\ Ended => /\ pc = "exit1" /\ err \in WorkerErrors
                    /\ \E p \in 1..nprocs : fut[p] = "failed" /\ werr[p] = err

\* one forcing file short: the last catchment has no file at its index
C13_Witness ==
    /\ pc = "exit1" /\ FewerFiles
    /\ Len(catchment_list) >= 2 /\ Len(forcing_files) = Len(catchment_list) - 1
    /\ err = "index_error"

AxisMismatches == {"start_mismatch", "end_mismatch", "interval_mismatch"}

\* C14: on a reference file with r >= 1 rows the time-axis check passes
\* exactly when the declared start is the first timestamp, the declared end
\* the last one and the declared interval (last - first) / (r - 1); every
\* disagreement fails with a time-axis mismatch error.
C14_AxisPassIffAgree ==
    \A r \in axis_reads :
        (r.worker = 1 /\ r.column.rows >= 1 /\ fut[1] # "running") =>
            LET c == r.column
                agree == /\ serialized_realization.start_time = c.first
                         /\ serialized_realization.end_time = c.last
                         /\ c.rows > 1
                         /\ serialized_realization.output_interval * (c.rows - 1)
                                = c.last - c.first
            IN /\ agree <=> (fut[1] = "done" /\ werr[1] = "none")
               /\ ~agree => (fut[1] = "failed" /\ werr[1] \in AxisMismatches)

\* the with block of line 139 has been left
Joined == pc \in {"report", "cleanup", "exit0"} \/ (pc = "exit1" /\ fut # <<>>)

C16_GlobalsAssignedOnce ==
    /\ [](fut # <<>> => serialized_realization.resolved /\ forcing_dir = "set")
    /\ [][/\ serialized_realization' # serialized_realization =>
                /\ pc = "validate_realization" /\ fut = <<>>
                /\ ~serialized_realization.resolved
          /\ forcing_dir' # forcing_dir =>
                /\ pc = "list_forcings" /\ fut = <<>>
                /\ forcing_dir = "unset"]_vars

\* two workers are in the middle of their partitions under the realization
\* and forcing directory assigned before the dispatch
C16_Witness ==
    /\ pc = "collect" /\ nprocs >= 2
    /\ fut[1] = "running" /\ wj[1] >= 1
    /\ fut[2] = "running" /\ wj[2] >= 1
    /\ serialized_realization = RunRealization /\ forcing_dir = "set"

\* C17: started with --data_dir only, no step deletes or writes the supplied
\* directory; /tmp/ngen_data_dir is the only directory ever created or
\* deleted, and only in a run that took the --tarball branch.
C17_OnlyTarballDeletes ==
    [][/\ user_dir' = user_dir
       /\ tmp_dir' # tmp_dir => /\ args.tarball /\ ~args.data_dir
                                /\ data_dir' = "tmp"]_vars

\* a --data_dir run succeeded and a /tmp/ngen_data_dir left by an earlier
\* run is still there
C17_Witness ==
    /\ pc = "exit0" /\ printed
    /\ args.data_dir /\ ~args.tarball
    /\ user_dir = "exists" /\ tmp_dir = "stale"

\* C18: a run with at least one catchment that reports success has performed
\* the time-axis check; the first partition's check reads the file at global
\* index 0 of the sorted forcing-file list; success without any check
\* happens only without catchments.
C18_SuccessImpliesAxisCheck ==
    /\ (printed /\ Len(catchment_list) >= 1) =>
          \E r \in axis_reads : r.worker = 1
    /\ \A r \in axis_reads :
          r.worker = 1 => r.index = 0 /\ r.file = forcing_files[1]
    /\ (printed /\ axis_reads = {}) => catchment_list = <<>>

\* three catchments on two workers validated successfully
C18_Witness ==
    /\ printed /\ Len(catchment_list) = 3 /\ nprocs = 2
    /\ \E r \in axis_reads : r.worker = 1 /\ r.index = 0

====
